---- MODULE Spec2Model ----
(***************************************************************************)
(* Model of gounity's filesystem accessor (FindFilesystemByName ..         *)
(* FindNASServerById) and of the logging helper WriteIndentedN.            *)
(*                                                                         *)
(* Every exported operation is synchronous and keeps no client-side state, *)
(* so each operation is one action: it draws its arguments and the         *)
(* responses of the HTTP executor, runs the whole function body and leaves *)
(* in the state the arguments, the list of executor calls it issued (with  *)
(* the response each one got), the value returned and the error returned.  *)
(***************************************************************************)
EXTENDS Integers, Sequences, FiniteSets

VARIABLES op, args, mock, calls, ret, err, out

vars == <<op, args, mock, calls, ret, err, out>>

(***************************************************************************)
(* Bounds of the model.                                                    *)
(***************************************************************************)
\* longest input, in bytes, handed to WriteIndentedN
MaxLen == 4
\* largest indentation handed to WriteIndentedN
MaxIndent == 2
\* a failing io.Writer fails after at most this many successful writes
MaxWrites == 3
\* names run up to FsNameMaxLength + NameOver bytes
NameOver == 2
\* longest host id list handed to ModifyNFSShareHostAccess
MaxHosts == 2

(***************************************************************************)
(* Errors.  An error value is the place that made it (site) and, when the  *)
(* message formats an underlying error with %v, that error (cause).        *)
(***************************************************************************)
Nil == "nil"

NoErr == [site |-> Nil, cause |-> Nil]

NewError(site, cause) == [site |-> site, cause |-> cause]

\* var FilesystemNotFoundError = errors.New("Unable to find filesystem")
FilesystemNotFoundError == [site |-> "FilesystemNotFoundError", cause |-> Nil]

(***************************************************************************)
(* api_logging.go: WriteIndentedN, WriteIndented.                          *)
(* Bytes are "a" (any byte that is no line ending nor space), "LF", "CR"   *)
(* and "SP".                                                               *)
(***************************************************************************)
InputBytes == {"a", "LF", "CR"}

RECURSIVE SeqsUpTo(_, _)
SeqsUpTo(S, k) ==
    IF k = 0 THEN {<<>>}
    ELSE LET shorter == SeqsUpTo(S, k - 1)
         IN  shorter \cup {Append(s, x) : s \in {t \in shorter : Len(t) = k - 1}, x \in S}

\* bytes.IndexByte(data, '\n'), 1-based; 0 when there is none
IndexLF(data) ==
    IF \E i \in 1..Len(data) : data[i] = "LF"
    THEN CHOOSE i \in 1..Len(data) : data[i] = "LF" /\ \A j \in 1..(i - 1) : data[j] # "LF"
    ELSE 0

\* bufio.dropCR: drops one terminal \r from the data
dropCR(data) ==
    IF Len(data) > 0 /\ data[Len(data)] = "CR" THEN SubSeq(data, 1, Len(data) - 1) ELSE data

\* s.Scan() with the default split function bufio.ScanLines over the unread
\* bytes of the reader: whether there is a token, the token (s.Text()) and
\* the bytes left unread
Scan(data) ==
    LET i == IndexLF(data)
    IN  IF Len(data) = 0 THEN [ok |-> FALSE, text |-> <<>>, rest |-> <<>>]
        ELSE IF i > 0
             THEN [ok |-> TRUE, text |-> dropCR(SubSeq(data, 1, i - 1)),
                   rest |-> SubSeq(data, i + 1, Len(data))]
             ELSE [ok |-> TRUE, text |-> dropCR(data), rest |-> <<>>]

\* an io.Writer: the bytes it took so far and the number of Write calls it
\* still accepts (-1: it never fails, as a bytes.Buffer)
NewWriter(budget) == [buf |-> <<>>, budget |-> budget, failed |-> FALSE]

\* fmt.Fprint(w, s): one Write call
Fprint(w, s) ==
    IF w.budget = 0 THEN [w EXCEPT !.failed = TRUE]
    ELSE [w EXCEPT !.buf = w.buf \o s,
                   !.budget = IF w.budget < 0 THEN w.budget ELSE w.budget - 1]

\* faulty variant: the loop bound off by one (x <= n)
RECURSIVE WriteSpacesOffByOne(_, _)
WriteSpacesOffByOne(w, n) ==
    IF n < 0 THEN w
    ELSE LET w1 == Fprint(w, <<"SP">>)
         IN  IF w1.failed THEN w1 ELSE WriteSpacesOffByOne(w1, n - 1)

\* for x := 0; x < n; x++ { fmt.Fprint(w, " ") }, leaving at the first error
RECURSIVE WriteSpaces(_, _)
WriteSpaces(w, n) ==
    IF n <= 0 THEN w
    ELSE LET w1 == Fprint(w, <<"SP">>)
         IN  IF w1.failed THEN w1 ELSE WriteSpaces(w1, n - 1)

\* the for loop of WriteIndentedN, entered with the line l and the unread bytes
RECURSIVE IndentLoop(_, _, _, _)
IndentLoop(w, l, rest, n) ==
    LET w1 == WriteSpaces(w, n)
        w2 == Fprint(w1, l)
        s  == Scan(rest)
        w3 == Fprint(w2, <<"LF">>)
    IN  IF w1.failed THEN w1
        ELSE IF w2.failed THEN w2
        ELSE IF ~s.ok THEN w2
        ELSE IF w3.failed THEN w3
        ELSE IndentLoop(w3, s.text, s.rest, n)

\* WriteIndentedN(w, b, n): the writer afterwards; the error returned is nil
\* unless the writer failed
WriteIndentedN(w, b, n) ==
    LET s == Scan(b)
    IN  IF ~s.ok THEN w ELSE IndentLoop(w, s.text, s.rest, n)

\* WriteIndented indents all lines four spaces.
WriteIndented(w, b) == WriteIndentedN(w, b, 4)

(***************************************************************************)
(* The shared HTTP executor, as the accessors see it.                      *)
(***************************************************************************)
\* what an executor call can fail with
ExecErrors == {"NotFound", "Transport"}

\* the response to one executor call: its error (Nil on success) and, on
\* success, the fields of the decoded body the accessors read
Fail(e) == [err |-> e]

OkEmpty == [err |-> Nil]

\* a filesystem body: FileContent.StorageResource.Id and a revision standing
\* for the rest of the content
OkFs(srId, rev) == [err |-> Nil, srId |-> srId, rev |-> rev]

\* an NFS share or NAS server body: its id
OkResource(id) == [err |-> Nil, id |-> id]

\* a license body: LicenseInfoContent.IsInstalled, LicenseInfoContent.IsValid
OkLicense(installed, valid) == [err |-> Nil, installed |-> installed, valid |-> valid]

\* a storage pool body: StoragePoolContent.PoolFastVP.Status
OkPool(status) == [err |-> Nil, fastVP |-> status]

NoBody == [kind |-> Nil]

\* f.client.executeWithRetryAuthenticate(ctx, method, fmt.Sprintf(uri, ...), body, resp):
\* the call as the executor receives it, with the response it gives
Exec(method, uri, rtype, target, body, r) ==
    [method |-> method, uri |-> uri, rtype |-> rtype, target |-> target, body |-> body,
     resp |-> r]

\* what an operation leaves: the executor calls issued, in order, the value
\* returned and the error returned
Result(cs, value, e) == [calls |-> cs, ret |-> value, err |-> e]

NilValue == [kind |-> Nil]

\* &types.Filesystem{} as decoded from a response
Filesystem(r) == [kind |-> "Filesystem", srId |-> r.srId, rev |-> r.rev]

\* &types.NFSShare{} as decoded from a response
NFSShare(r) == [kind |-> "NFSShare", id |-> r.id]

\* &types.NASServer{} as decoded from a response
NASServer(r) == [kind |-> "NASServer", id |-> r.id]

\* poolApi.FindStoragePoolById(ctx, storagepool)
FindStoragePoolById(poolId, r) ==
    IF Len(poolId) = 0
    THEN Result(<<>>, NilValue, NewError("Storage Pool Id shouldn't be empty", Nil))
    ELSE LET c == Exec("GET", "UnityApiGetResourceWithFieldsUri", "pool", poolId, NoBody, r)
         IN  IF r.err # Nil THEN Result(<<c>>, NilValue, NewError("FindStoragePoolById", r.err))
             ELSE Result(<<c>>, [kind |-> "StoragePool", fastVP |-> r.fastVP], NoErr)

\* the feature names handed to isFeatureLicensed
ThinProvisioning == "ThinProvisioning"

DataReduction == "DataReduction"

\* volApi.isFeatureLicensed(ctx, feature)
isFeatureLicensed(feature, r) ==
    LET c == Exec("GET", "UnityApiGetResourceWithFieldsUri", "license", feature, NoBody, r)
    IN  IF r.err # Nil THEN Result(<<c>>, NilValue, NewError("isFeatureLicensed", r.err))
        ELSE Result(<<c>>, [kind |-> "LicenseInfo", IsInstalled |-> r.installed,
                            IsValid |-> r.valid], NoErr)

(***************************************************************************)
(* filesystem.go: lookups.                                                 *)
(***************************************************************************)
FsNameMaxLength == 63

FindFilesystemByName(filesystemName, r) ==
    IF Len(filesystemName) = 0
    THEN Result(<<>>, NilValue, NewError("Filesystem Name shouldn't be empty", Nil))
    ELSE LET c == Exec("GET", "UnityApiGetResourceByNameWithFieldsUri", "filesystem",
                       filesystemName, NoBody, r)
         IN  IF r.err # Nil THEN Result(<<c>>, NilValue, FilesystemNotFoundError)
             ELSE Result(<<c>>, Filesystem(r), NoErr)

\* faulty variant: a failed lookup is tried a second time
FindFilesystemByIdRetrying(filesystemId, r) ==
    IF Len(filesystemId) = 0
    THEN Result(<<>>, NilValue, NewError("Filesystem Id shouldn't be empty", Nil))
    ELSE LET c == Exec("GET", "UnityApiGetResourceWithFieldsUri", "filesystem",
                       filesystemId, NoBody, r)
         IN  IF r.err # Nil THEN Result(<<c, c>>, NilValue, FilesystemNotFoundError)
             ELSE Result(<<c>>, Filesystem(r), NoErr)

FindFilesystemById(filesystemId, r) ==
    IF Len(filesystemId) = 0
    THEN Result(<<>>, NilValue, NewError("Filesystem Id shouldn't be empty", Nil))
    ELSE LET c == Exec("GET", "UnityApiGetResourceWithFieldsUri", "filesystem",
                       filesystemId, NoBody, r)
         IN  IF r.err # Nil THEN Result(<<c>>, NilValue, FilesystemNotFoundError)
             ELSE Result(<<c>>, Filesystem(r), NoErr)

FindNFSShareByName(nfsSharename, r) ==
    IF Len(nfsSharename) = 0
    THEN Result(<<>>, NilValue, NewError("NFS Share Name shouldn't be empty", Nil))
    ELSE LET c == Exec("GET", "UnityApiGetResourceByNameWithFieldsUri", "nfsShare",
                       nfsSharename, NoBody, r)
         IN  IF r.err # Nil
             THEN Result(<<c>>, NilValue, NewError("Unable to find NFS Share. Error: %v", r.err))
             ELSE Result(<<c>>, NFSShare(r), NoErr)

\* faulty variant: the executor's error is dropped and the empty share returned
FindNFSShareByIdIgnoringError(nfsShareId, r) ==
    IF Len(nfsShareId) = 0
    THEN Result(<<>>, NilValue, NewError("NFS Share Id shouldn't be empty", Nil))
    ELSE LET c == Exec("GET", "UnityApiGetResourceWithFieldsUri", "nfsShare", nfsShareId,
                       NoBody, r)
         IN  Result(<<c>>, [kind |-> "NFSShare", id |-> ""], NoErr)

FindNFSShareById(nfsShareId, r) ==
    IF Len(nfsShareId) = 0
    THEN Result(<<>>, NilValue, NewError("NFS Share Id shouldn't be empty", Nil))
    ELSE LET c == Exec("GET", "UnityApiGetResourceWithFieldsUri", "nfsShare", nfsShareId,
                       NoBody, r)
         IN  IF r.err # Nil
             THEN Result(<<c>>, NilValue,
                         NewError("Unable to find NFS Share: %s. Error: %v", r.err))
             ELSE Result(<<c>>, NFSShare(r), NoErr)

FindNASServerById(nasServerId, r) ==
    IF Len(nasServerId) = 0
    THEN Result(<<>>, NilValue, NewError("NAS Server Id shouldn't be empty", Nil))
    ELSE LET c == Exec("GET", "UnityApiGetResourceWithFieldsUri", "nasServer", nasServerId,
                       NoBody, r)
         IN  IF r.err # Nil
             THEN Result(<<c>>, NilValue,
                         NewError("Unable to find NAS Server: %s. Error: %v", r.err))
             ELSE Result(<<c>>, NASServer(r), NoErr)

(***************************************************************************)
(* filesystem.go: CreateFilesystem, DeleteFilesystem.                      *)
(***************************************************************************)
\* strconv.FormatBool
FormatBool(v) == IF v THEN "true" ELSE "false"

\* an optional field of a payload: absent (a nil pointer) or present
Absent == [present |-> FALSE, value |-> <<>>]

Present(v) == [present |-> TRUE, value |-> v]

\* faulty variant: the licence's validity is not looked at
LicensedIfInstalled(info) == info.IsInstalled

\* the licence test of lines 253 and 259
Licensed(info) == info.IsInstalled /\ info.IsValid

\* types.FsCreateParam with its FsParameters, as posted.  description, size,
\* hostIOSize and supportedProtocol are copied into the payload unread and
\* are left out.
FsCreateParam(name, storagepool, nasServer, thin, dataReduction, fastVP) ==
    [kind |-> "FsCreateParam", name |-> name, poolId |-> storagepool,
     nasServer |-> nasServer, isThinEnabled |-> thin,
     isDataReductionEnabled |-> dataReduction, fastVPParameters |-> fastVP]

\* faulty variant: the length test off by one (>=)
NameTooLongOffByOne(name) == Len(name) >= FsNameMaxLength

\* the length test of line 206
NameTooLong(name) == Len(name) > FsNameMaxLength

CreateFilesystem(name, storagepool, nasServer, tieringPolicy, isThinEnabled, isDataReductionEnabled, rPool, rThin, rDR, rCreate) ==
    LET pool == FindStoragePoolById(storagepool, rPool)
        thin == isFeatureLicensed(ThinProvisioning, rThin)
        dr   == isFeatureLicensed(DataReduction, rDR)
        thinLicensed == Licensed(thin.ret)
        drLicensed   == Licensed(dr.ret)
        fastVP == IF pool.ret.fastVP # 0 THEN Present(<<tieringPolicy>>) ELSE Absent
        fileReqParam ==
            FsCreateParam(name, storagepool, nasServer,
                          IF thinLicensed THEN FormatBool(isThinEnabled) ELSE "",
                          IF drLicensed THEN FormatBool(isDataReductionEnabled) ELSE "",
                          fastVP)
        create == Exec("POST", "UnityApiStorageResourceActionUri", "storageResource",
                       "createFilesystem", fileReqParam, rCreate)
        c1 == pool.calls
        c2 == c1 \o thin.calls
        c3 == c2 \o dr.calls
        c4 == Append(c3, create)
    IN  IF name = ""
        THEN Result(<<>>, NilValue, NewError("filesystem name should not be empty.", Nil))
        ELSE IF NameTooLong(name)
        THEN Result(<<>>, NilValue,
                    NewError("filesystem name %s should not exceed %d characters.", Nil))
        ELSE IF pool.ret = NilValue
        THEN Result(c1, NilValue, NewError("unable to get PoolID (%s) Error:%v", pool.err.cause))
        ELSE IF pool.err # NoErr
        THEN Result(c1, NilValue,
                    NewError("Error trying to get Storage Pool (%s) Error:%v", pool.err.cause))
        ELSE IF thin.err # NoErr
        THEN Result(c2, NilValue,
                    NewError("Unable to get license info for feature: ThinProvisioning", Nil))
        ELSE IF dr.err # NoErr
        THEN Result(c3, NilValue,
                    NewError("Unable to get license info for feature: DataReduction", Nil))
        ELSE IF ~thinLicensed /\ isThinEnabled
        THEN Result(c3, NilValue, NewError("Thin Provisioning is not supported on array", Nil))
        ELSE IF ~drLicensed /\ isDataReductionEnabled
        THEN Result(c3, NilValue, NewError("Data Reduction is not supported on array", Nil))
        ELSE IF rCreate.err # Nil
        THEN Result(c4, NilValue, NewError("executeWithRetryAuthenticate", rCreate.err))
        ELSE Result(c4, Filesystem(rCreate), NoErr)

\* the HTTP DELETE of line 303
DeleteRequest(resourceID, r) ==
    Exec("DELETE", "UnityApiGetResourceUri", "storageResource", resourceID, NoBody, r)

\* faulty variant: the DELETE is addressed with the caller's filesystem id
DeleteTargetIsFilesystemId(filesystemId, filesystemResp) == filesystemId

\* resourceID := filesystemResp.FileContent.StorageResource.Id
DeleteTarget(filesystemId, filesystemResp) == filesystemResp.srId

DeleteFilesystem(filesystemId, rFs, rDelete) ==
    LET find == FindFilesystemById(filesystemId, rFs)
        resourceID == DeleteTarget(filesystemId, find.ret)
        cs == Append(find.calls, DeleteRequest(resourceID, rDelete))
    IN  IF Len(filesystemId) = 0
        THEN Result(<<>>, NilValue, NewError("Filesystem Id cannot be empty", Nil))
        ELSE IF find.err # NoErr
        THEN Result(find.calls, NilValue, FilesystemNotFoundError)
        ELSE IF rDelete.err # Nil
        THEN Result(cs, NilValue,
                    NewError("Delete Filesystem %s Failed. Error: %v", rDelete.err))
        ELSE Result(cs, NilValue, NoErr)

(***************************************************************************)
(* filesystem.go: NFS shares.                                              *)
(***************************************************************************)
\* the POST to UnityModifyFilesystemUri templated with the storage resource id
ModifyRequest(resourceID, body, r) ==
    Exec("POST", "UnityModifyFilesystemUri", "storageResource", resourceID, body, r)

\* types.FsModifyParameters holding the one NFSShareCreateParam
FsModifyParameters(name, path, nfsShareDefaultAccess) ==
    [kind |-> "FsModifyParameters",
     nfsShares |-> <<[name |-> name, path |-> path, defaultAccess |-> nfsShareDefaultAccess]>>]

\* faulty variant: the filesystem of the first lookup is returned
CreatedShareValueFirst(first, second) == first.ret

\* the value CreateNFSShare returns once both lookups and the POST succeeded
CreatedShareValue(first, second) == second.ret

CreateNFSShare(name, path, filesystemId, nfsShareDefaultAccess, rFs, rModify, rFs2) ==
    LET first == FindFilesystemById(filesystemId, rFs)
        resourceID == first.ret.srId
        post == ModifyRequest(resourceID, FsModifyParameters(name, path, nfsShareDefaultAccess),
                              rModify)
        c2 == Append(first.calls, post)
        second == FindFilesystemById(filesystemId, rFs2)
        c3 == c2 \o second.calls
    IN  IF Len(filesystemId) = 0
        THEN Result(<<>>, NilValue, NewError("Filesystem Id cannot be empty", Nil))
        ELSE IF first.err # NoErr
        THEN Result(first.calls, NilValue, FilesystemNotFoundError)
        ELSE IF rModify.err # Nil
        THEN Result(c2, NilValue, NewError("Create NFS Share failed. Error: %v", rModify.err))
        ELSE IF second.err # NoErr
        THEN Result(c3, NilValue, FilesystemNotFoundError)
        ELSE Result(c3, CreatedShareValue(first, second), NoErr)

\* AccessType
ReadOnlyAccessType == "READ_ONLY"

ReadWriteAccessType == "READ_WRITE"

ReadOnlyRootAccessType == "READ_ONLY_ROOT"

ReadWriteRootAccessType == "READ_WRITE_ROOT"

\* faulty variant: the if chain broken after its second branch, so that the final
\* else belongs to the READ_ONLY_ROOT test alone
HostAccessParametersBrokenChain(hostIds, accessType) ==
    LET hostsIdsContent == Present(hostIds)
    IN  [ReadOnlyHosts |->
             IF accessType = "READ_ONLY" THEN hostsIdsContent ELSE Absent,
         ReadWriteHosts |->
             IF accessType = "READ_WRITE" THEN hostsIdsContent ELSE Absent,
         ReadOnlyRootAccessHosts |->
             IF accessType = "READ_ONLY_ROOT" THEN hostsIdsContent ELSE Absent,
         RootAccessHosts |->
             IF accessType # "READ_ONLY_ROOT" THEN hostsIdsContent ELSE Absent]

\* types.NFSShareParameters as filled by lines 398-407: the list chosen by
\* accessType points to the host id contents, the other three stay nil
HostAccessParameters(hostIds, accessType) ==
    LET hostsIdsContent == Present(hostIds)
    IN  [ReadOnlyHosts |->
             IF accessType = ReadOnlyAccessType THEN hostsIdsContent ELSE Absent,
         ReadWriteHosts |->
             IF accessType = ReadWriteAccessType THEN hostsIdsContent ELSE Absent,
         ReadOnlyRootAccessHosts |->
             IF accessType = ReadOnlyRootAccessType THEN hostsIdsContent ELSE Absent,
         RootAccessHosts |->
             IF accessType \notin {ReadOnlyAccessType, ReadWriteAccessType,
                                   ReadOnlyRootAccessType}
             THEN hostsIdsContent ELSE Absent]

\* types.NFSShareModify holding the one NFSShareModifyContent
NFSShareModify(nfsShareId, hostIds, accessType) ==
    [kind |-> "NFSShareModify", nfsShare |-> nfsShareId,
     nfsShareParameters |-> HostAccessParameters(hostIds, accessType)]

ModifyNFSShareHostAccess(filesystemId, nfsShareId, hostIds, accessType, rFs, rModify) ==
    LET find == FindFilesystemById(filesystemId, rFs)
        resourceID == find.ret.srId
        post == ModifyRequest(resourceID, NFSShareModify(nfsShareId, hostIds, accessType),
                              rModify)
        cs == Append(find.calls, post)
    IN  IF Len(filesystemId) = 0
        THEN Result(<<>>, NilValue, NewError("Filesystem Id cannot be empty", Nil))
        ELSE IF find.err # NoErr
        THEN Result(find.calls, NilValue, FilesystemNotFoundError)
        ELSE IF rModify.err # Nil
        THEN Result(cs, NilValue, NewError("Modify NFS Share failed. Error: %v", rModify.err))
        ELSE Result(cs, NilValue, NoErr)

\* types.NFSShareDelete holding the one NFSShareModifyContent
NFSShareDelete(nfsShareId) == [kind |-> "NFSShareDelete", nfsShare |-> nfsShareId]

\* the error DeleteNFSShare returns when its NFS share lookup failed
ShareLookupError(e) == NewError("Unable to find NFS Share. Error: %v", e.cause)

DeleteNFSShare(filesystemId, nfsShareId, rFs, rShare, rDelete) ==
    LET find == FindFilesystemById(filesystemId, rFs)
        resourceID == find.ret.srId
        share == FindNFSShareById(nfsShareId, rShare)
        c2 == find.calls \o share.calls
        post == ModifyRequest(resourceID, NFSShareDelete(nfsShareId), rDelete)
        c3 == Append(c2, post)
    IN  IF Len(filesystemId) = 0
        THEN Result(<<>>, NilValue, NewError("Filesystem Id cannot be empty", Nil))
        ELSE IF find.err # NoErr
        THEN Result(find.calls, NilValue, FilesystemNotFoundError)
        ELSE IF Len(nfsShareId) = 0
        THEN Result(find.calls, NilValue, NewError("NFS Share Id cannot be empty", Nil))
        ELSE IF share.err # NoErr
        THEN Result(c2, NilValue, ShareLookupError(share.err))
        ELSE IF rDelete.err # Nil
        THEN Result(c3, NilValue,
                    NewError("Delete NFS Share: %s Failed. Error: %v", rDelete.err))
        ELSE Result(c3, NilValue, NoErr)

(***************************************************************************)
(* Arguments and executor responses the operations are run with.           *)
(***************************************************************************)
RECURSIVE Repeat(_)
Repeat(k) == IF k = 0 THEN "" ELSE "a" \o Repeat(k - 1)

\* names: empty, one byte, and the lengths around FsNameMaxLength
Names ==
    {Repeat(k) : k \in {0, 1} \cup ((FsNameMaxLength - 1)..(FsNameMaxLength + NameOver))}

FilesystemIds == {"", "fs_1", "fs_2"}

NfsShareIds == {"", "nfs_1"}

NfsShareNames == {"", "share1"}

NasServerIds == {"", "nas_1"}

PoolIds == {"", "pool_1"}

Paths == {"", "/path"}

HostIdLists == SeqsUpTo({"host_1", "host_2"}, MaxHosts)

\* AccessType is a string type: the four constants and two other values
AccessTypes ==
    {ReadOnlyAccessType, ReadWriteAccessType, ReadOnlyRootAccessType,
     ReadWriteRootAccessType, "", "OTHER"}

\* NoneDefaultAccess .. ReadWriteRootDefaultAccess
NFSShareDefaultAccesses == {"0", "1", "2", "3", "4"}

TieringPolicies == {0, 1}

FsResponses ==
    {Fail(e) : e \in ExecErrors} \cup {OkFs(id, rev) : id \in {"sv_1", "sv_2"}, rev \in {1, 2}}

ShareResponses == {Fail(e) : e \in ExecErrors} \cup {OkResource("nfs_1")}

NasResponses == {Fail(e) : e \in ExecErrors} \cup {OkResource("nas_1")}

PoolResponses == {Fail(e) : e \in ExecErrors} \cup {OkPool(st) : st \in {0, 1}}

LicenseResponses ==
    {Fail(e) : e \in ExecErrors} \cup {OkLicense(i, v) : i \in BOOLEAN, v \in BOOLEAN}

CreateResponses == {Fail(e) : e \in ExecErrors} \cup {OkFs("sv_1", 1)}

WriteResponses == {Fail(e) : e \in ExecErrors} \cup {OkEmpty}

\* a writer that never fails, or one that fails after 0..MaxWrites writes
Budgets == {-1} \cup 0..MaxWrites

NoArgs ==
    [name |-> "", path |-> "", filesystemId |-> "", nfsShareId |-> "", nasServer |-> "",
     storagepool |-> "", tieringPolicy |-> 0, isThinEnabled |-> FALSE,
     isDataReductionEnabled |-> FALSE, nfsShareDefaultAccess |-> "", hostIds |-> <<>>,
     accessType |-> "", b |-> <<>>, n |-> 0, budget |-> 0]

\* the responses the executor is set to give: to the first and second
\* filesystem lookup, the NFS share lookup, the pool lookup, the two licence
\* queries, the create/modify/delete request and the NAS server lookup
NoMock ==
    [rFs |-> OkEmpty, rFs2 |-> OkEmpty, rShare |-> OkEmpty, rPool |-> OkEmpty,
     rThin |-> OkEmpty, rDR |-> OkEmpty, rWrite |-> OkEmpty, rNas |-> OkEmpty]

\* no operation has been called, or its result has been taken
Idle == "idle"

Init ==
    /\ op = Idle
    /\ args = NoArgs
    /\ mock = NoMock
    /\ calls = <<>>
    /\ ret = NilValue
    /\ err = NoErr
    /\ out = <<>>

\* the state an accessor operation leaves
Returns(a, m, r) ==
    /\ args' = a
    /\ mock' = m
    /\ calls' = r.calls
    /\ ret' = r.ret
    /\ err' = r.err
    /\ out' = <<>>

\* the state WriteIndentedN leaves: the bytes the writer took and the error
Written(a, w) ==
    /\ args' = a
    /\ mock' = NoMock
    /\ calls' = <<>>
    /\ ret' = NilValue
    /\ err' = IF w.failed THEN NewError("io.Writer", Nil) ELSE NoErr
    /\ out' = w.buf

CallWriteIndentedN ==
    /\ op = Idle
    /\ \E b \in SeqsUpTo(InputBytes, MaxLen), n \in 0..MaxIndent, budget \in Budgets :
        /\ op' = "WriteIndentedN"
        /\ Written([NoArgs EXCEPT !.b = b, !.n = n, !.budget = budget],
                WriteIndentedN(NewWriter(budget), b, n))

CallWriteIndented ==
    /\ op = Idle
    /\ \E b \in SeqsUpTo(InputBytes, MaxLen), budget \in Budgets :
        /\ op' = "WriteIndented"
        /\ Written([NoArgs EXCEPT !.b = b, !.n = 4, !.budget = budget],
                WriteIndented(NewWriter(budget), b))

CallFindFilesystemByName ==
    /\ op = Idle
    /\ \E name \in Names, r \in FsResponses :
        /\ op' = "FindFilesystemByName"
        /\ Returns([NoArgs EXCEPT !.name = name],
                [NoMock EXCEPT !.rFs = r], FindFilesystemByName(name, r))

CallFindFilesystemById ==
    /\ op = Idle
    /\ \E id \in FilesystemIds, r \in FsResponses :
        /\ op' = "FindFilesystemById"
        /\ Returns([NoArgs EXCEPT !.filesystemId = id],
                [NoMock EXCEPT !.rFs = r], FindFilesystemById(id, r))

CallFindNFSShareByName ==
    /\ op = Idle
    /\ \E name \in NfsShareNames, r \in ShareResponses :
        /\ op' = "FindNFSShareByName"
        /\ Returns([NoArgs EXCEPT !.name = name],
                [NoMock EXCEPT !.rShare = r], FindNFSShareByName(name, r))

CallFindNFSShareById ==
    /\ op = Idle
    /\ \E id \in NfsShareIds, r \in ShareResponses :
        /\ op' = "FindNFSShareById"
        /\ Returns([NoArgs EXCEPT !.nfsShareId = id],
                [NoMock EXCEPT !.rShare = r], FindNFSShareById(id, r))

CallFindNASServerById ==
    /\ op = Idle
    /\ \E id \in NasServerIds, r \in NasResponses :
        /\ op' = "FindNASServerById"
        /\ Returns([NoArgs EXCEPT !.nasServer = id],
                [NoMock EXCEPT !.rNas = r], FindNASServerById(id, r))

CallCreateFilesystem ==
    /\ op = Idle
    /\ \E name \in Names, storagepool \in PoolIds, nasServer \in NasServerIds,
       tieringPolicy \in TieringPolicies, isThinEnabled \in BOOLEAN,
       isDataReductionEnabled \in BOOLEAN, rPool \in PoolResponses,
       rThin \in LicenseResponses, rDR \in LicenseResponses, rCreate \in CreateResponses :
        /\ op' = "CreateFilesystem"
        /\ Returns([NoArgs EXCEPT !.name = name, !.storagepool = storagepool,
                               !.nasServer = nasServer, !.tieringPolicy = tieringPolicy,
                               !.isThinEnabled = isThinEnabled,
                               !.isDataReductionEnabled = isDataReductionEnabled],
                [NoMock EXCEPT !.rPool = rPool, !.rThin = rThin, !.rDR = rDR,
                               !.rWrite = rCreate],
                CreateFilesystem(name, storagepool, nasServer, tieringPolicy, isThinEnabled,
                                 isDataReductionEnabled, rPool, rThin, rDR, rCreate))

CallDeleteFilesystem ==
    /\ op = Idle
    /\ \E id \in FilesystemIds, rFs \in FsResponses, rDelete \in WriteResponses :
        /\ op' = "DeleteFilesystem"
        /\ Returns([NoArgs EXCEPT !.filesystemId = id],
                [NoMock EXCEPT !.rFs = rFs, !.rWrite = rDelete],
                DeleteFilesystem(id, rFs, rDelete))

CallCreateNFSShare ==
    /\ op = Idle
    /\ \E name \in NfsShareNames, path \in Paths, id \in FilesystemIds,
       access \in NFSShareDefaultAccesses, rFs \in FsResponses, rModify \in WriteResponses,
       rFs2 \in FsResponses :
        /\ op' = "CreateNFSShare"
        /\ Returns([NoArgs EXCEPT !.name = name, !.path = path, !.filesystemId = id,
                               !.nfsShareDefaultAccess = access],
                [NoMock EXCEPT !.rFs = rFs, !.rWrite = rModify, !.rFs2 = rFs2],
                CreateNFSShare(name, path, id, access, rFs, rModify, rFs2))

CallModifyNFSShareHostAccess ==
    /\ op = Idle
    /\ \E id \in FilesystemIds, share \in NfsShareIds, hostIds \in HostIdLists,
       accessType \in AccessTypes, rFs \in FsResponses, rModify \in WriteResponses :
        /\ op' = "ModifyNFSShareHostAccess"
        /\ Returns([NoArgs EXCEPT !.filesystemId = id, !.nfsShareId = share,
                               !.hostIds = hostIds, !.accessType = accessType],
                [NoMock EXCEPT !.rFs = rFs, !.rWrite = rModify],
                ModifyNFSShareHostAccess(id, share, hostIds, accessType, rFs, rModify))

CallDeleteNFSShare ==
    /\ op = Idle
    /\ \E id \in FilesystemIds, share \in NfsShareIds, rFs \in FsResponses,
       rShare \in ShareResponses, rDelete \in WriteResponses :
        /\ op' = "DeleteNFSShare"
        /\ Returns([NoArgs EXCEPT !.filesystemId = id, !.nfsShareId = share],
                [NoMock EXCEPT !.rFs = rFs, !.rShare = rShare, !.rWrite = rDelete],
                DeleteNFSShare(id, share, rFs, rShare, rDelete))

\* the caller takes the result; the accessor keeps nothing of the call
Discard ==
    /\ op # Idle
    /\ op' = Idle
    /\ args' = NoArgs
    /\ mock' = NoMock
    /\ calls' = <<>>
    /\ ret' = NilValue
    /\ err' = NoErr
    /\ out' = <<>>

Next ==
    \/ CallFindFilesystemById
    \/ CallFindFilesystemByName
    \/ CallDeleteNFSShare
    \/ CallModifyNFSShareHostAccess
    \/ CallCreateNFSShare
    \/ CallDeleteFilesystem
    \/ CallCreateFilesystem
    \/ CallFindNFSShareByName
    \/ CallFindNFSShareById
    \/ CallFindNASServerById
    \/ CallWriteIndentedN
    \/ CallWriteIndented
    \/ Discard

Spec == Init /\ [][Next]_vars

(***************************************************************************)
(* Properties.                                                             *)
(***************************************************************************)
Accessors ==
    {"FindFilesystemByName", "FindFilesystemById", "CreateFilesystem", "DeleteFilesystem",
     "CreateNFSShare", "FindNFSShareByName", "FindNFSShareById",
     "ModifyNFSShareHostAccess", "DeleteNFSShare", "FindNASServerById"}

\* the errors made by the empty-identifier and name-length tests
ValidationSites ==
    {"Filesystem Name shouldn't be empty", "Filesystem Id shouldn't be empty",
     "filesystem name should not be empty.",
     "filesystem name %s should not exceed %d characters.",
     "Filesystem Id cannot be empty", "NFS Share Name shouldn't be empty",
     "NFS Share Id shouldn't be empty", "NFS Share Id cannot be empty",
     "NAS Server Id shouldn't be empty", "Storage Pool Id shouldn't be empty"}

\* the identifier arguments the operation in the state was called with:
\* filesystem id or name, NFS share id or name, NAS server id
IdentifierArgs ==
    CASE op = "FindFilesystemByName" -> {args.name}
      [] op = "FindFilesystemById" -> {args.filesystemId}
      [] op = "CreateFilesystem" -> {args.name, args.nasServer}
      [] op = "DeleteFilesystem" -> {args.filesystemId}
      [] op = "CreateNFSShare" -> {args.filesystemId, args.name}
      [] op = "FindNFSShareByName" -> {args.name}
      [] op = "FindNFSShareById" -> {args.nfsShareId}
      [] op = "ModifyNFSShareHostAccess" -> {args.filesystemId, args.nfsShareId}
      [] op = "DeleteNFSShare" -> {args.filesystemId, args.nfsShareId}
      [] op = "FindNASServerById" -> {args.nasServer}
      [] OTHER -> {}

Failed(c) == c.resp.err # Nil

IsFilesystemLookup(c) == c.method = "GET" /\ c.rtype = "filesystem"

IsShareLookup(c) == c.method = "GET" /\ c.rtype = "nfsShare"

IsPoolLookup(c) == c.method = "GET" /\ c.rtype = "pool"

IsCreatePost(c) ==
    /\ c.method = "POST"
    /\ c.uri = "UnityApiStorageResourceActionUri"
    /\ c.target = "createFilesystem"

IsModifyPost(c) == c.method = "POST" /\ c.uri = "UnityModifyFilesystemUri"

\* the HTTP DELETE on the storage resource, or the delete-share modify POST
IsDeleteRequest(c) ==
    \/ c.method = "DELETE" /\ c.rtype = "storageResource"
    \/ IsModifyPost(c) /\ c.body.kind = "NFSShareDelete"

Calls == 1..Len(calls)

\* C1: an accessor called with an empty identifier argument returns a
\* validation error and makes no executor call
C1_EmptyIdentifierRejectedWithoutCall ==
    (op \in Accessors /\ "" \in IdentifierArgs)
        => (err.site \in ValidationSites /\ calls = <<>>)

\* C2: CreateFilesystem with a name longer than FsNameMaxLength returns an
\* error without any executor call; a non-empty name of at most
\* FsNameMaxLength bytes passes the name tests and goes on to the storage
\* pool lookup (FindStoragePoolById is called: its GET is the first executor
\* call, or it refuses the pool id and CreateFilesystem returns its error)
C2_NameLengthCheck ==
    op = "CreateFilesystem" =>
        /\ Len(args.name) > FsNameMaxLength => (err # NoErr /\ calls = <<>>)
        /\ (args.name # "" /\ Len(args.name) <= FsNameMaxLength) =>
              /\ err.site \notin {"filesystem name should not be empty.",
                                  "filesystem name %s should not exceed %d characters."}
              /\ \/ /\ calls = <<>>
                    /\ err.site = "unable to get PoolID (%s) Error:%v"
                 \/ /\ Len(calls) >= 1
                    /\ IsPoolLookup(calls[1])
                    /\ calls[1].target = args.storagepool

C2_Witness ==
    /\ op = "CreateFilesystem"
    /\ Len(args.name) = FsNameMaxLength
    /\ Len(calls) = 4
    /\ IsPoolLookup(calls[1])
    /\ err = NoErr

\* what the array answers about a feature's licence
LicenseUsable(r) == r.err = Nil /\ r.installed /\ r.valid

\* C3: CreateFilesystem asked for thin provisioning or data reduction while
\* that licence is not both installed and valid returns an error and never
\* issues the createFilesystem POST; the POST is issued only when every
\* requested feature is licensed
C3_UnlicensedFeatureNeverCreates ==
    op = "CreateFilesystem" =>
        /\ (\/ args.isThinEnabled /\ ~LicenseUsable(mock.rThin)
            \/ args.isDataReductionEnabled /\ ~LicenseUsable(mock.rDR))
              => (err # NoErr /\ \A i \in Calls : ~IsCreatePost(calls[i]))
        /\ (\E i \in Calls : IsCreatePost(calls[i]))
              => /\ args.isThinEnabled => LicenseUsable(mock.rThin)
                 /\ args.isDataReductionEnabled => LicenseUsable(mock.rDR)

C3_Witness ==
    /\ op = "CreateFilesystem"
    /\ args.isDataReductionEnabled
    /\ mock.rDR = OkLicense(TRUE, FALSE)
    /\ Len(calls) = 3
    /\ err.site = "Data Reduction is not supported on array"

PresentLists(p) ==
    {f \in {"ReadOnlyHosts", "ReadWriteHosts", "ReadOnlyRootAccessHosts", "RootAccessHosts"} :
        p[f].present}

\* C5: the payload ModifyNFSShareHostAccess posts carries the host ids in
\* exactly one host-access list and leaves the other three absent, whatever
\* the accessType: READ_ONLY fills ReadOnlyHosts, READ_WRITE ReadWriteHosts,
\* READ_ONLY_ROOT ReadOnlyRootAccessHosts and READ_WRITE_ROOT RootAccessHosts
C5_OneHostListPerAccessType ==
    (op = "ModifyNFSShareHostAccess" /\ Len(calls) = 2) =>
        LET p == calls[2].body.nfsShareParameters
            only(f) == PresentLists(p) = {f} /\ p[f].value = args.hostIds
        IN  /\ IsModifyPost(calls[2])
            /\ Cardinality(PresentLists(p)) = 1
            /\ \A f \in PresentLists(p) : p[f].value = args.hostIds
            /\ args.accessType = "READ_ONLY" => only("ReadOnlyHosts")
            /\ args.accessType = "READ_WRITE" => only("ReadWriteHosts")
            /\ args.accessType = "READ_ONLY_ROOT" => only("ReadOnlyRootAccessHosts")
            /\ args.accessType = "READ_WRITE_ROOT" => only("RootAccessHosts")

C5_Witness ==
    /\ op = "ModifyNFSShareHostAccess"
    /\ args.accessType = "READ_ONLY"
    /\ args.hostIds = <<"host_1", "host_2">>
    /\ Len(calls) = 2
    /\ calls[2].body.nfsShareParameters.ReadOnlyHosts.present

\* C6: a successful CreateNFSShare issues exactly three executor calls in
\* this order: the GET of the filesystem by id, the modify POST templated
\* with the storage resource id that GET returned, the GET of the same
\* filesystem id again; it returns the filesystem of the second GET
C6_CreateNFSShareCallSequence ==
    (op = "CreateNFSShare" /\ err = NoErr) =>
        /\ args.filesystemId # ""
        /\ Len(calls) = 3
        /\ IsFilesystemLookup(calls[1])
        /\ calls[1].uri = "UnityApiGetResourceWithFieldsUri"
        /\ calls[1].target = args.filesystemId
        /\ IsModifyPost(calls[2])
        /\ calls[2].target = calls[1].resp.srId
        /\ calls[2].body.kind = "FsModifyParameters"
        /\ IsFilesystemLookup(calls[3])
        /\ calls[3].uri = "UnityApiGetResourceWithFieldsUri"
        /\ calls[3].target = args.filesystemId
        /\ ret.kind = "Filesystem"
        /\ ret.srId = calls[3].resp.srId
        /\ ret.rev = calls[3].resp.rev

C6_Witness ==
    /\ op = "CreateNFSShare"
    /\ err = NoErr
    /\ Len(calls) = 3
    /\ calls[1].resp = OkFs("sv_1", 1)
    /\ calls[3].resp = OkFs("sv_1", 2)
    /\ ret.rev = 2

\* C7: an operation returns FilesystemNotFoundError only when the executor
\* reported that the resource does not exist; a lookup that failed for any
\* other reason is returned as another error
C7_SentinelOnlyWhenNotFound ==
    op \in Accessors =>
        /\ err = FilesystemNotFoundError =>
              (Len(calls) >= 1 /\ calls[Len(calls)].resp.err = "NotFound")
        /\ \A i \in Calls :
              (IsFilesystemLookup(calls[i]) /\ Failed(calls[i])
                  /\ calls[i].resp.err # "NotFound") => err # FilesystemNotFoundError

\* C8: once an executor call of an operation returned an error the
\* operation issues no further executor call and returns an error
C8_NoCallAfterFailure ==
    op \in Accessors =>
        \A i \in Calls : Failed(calls[i]) => (i = Len(calls) /\ err # NoErr)

C8_Witness ==
    /\ op = "CreateFilesystem"
    /\ Len(calls) = 2
    /\ Failed(calls[2])
    /\ err.site = "Unable to get license info for feature: ThinProvisioning"

\* C10: DeleteFilesystem with a non-empty id issues one lookup of the
\* filesystem by id and then, only if the lookup succeeded, one HTTP DELETE
\* on the storage resource id of the lookup response; it returns nil exactly
\* when both the lookup and the DELETE succeeded
C10_DeleteFilesystemSequence ==
    (op = "DeleteFilesystem" /\ args.filesystemId # "") =>
        /\ Len(calls) >= 1
        /\ IsFilesystemLookup(calls[1])
        /\ calls[1].target = args.filesystemId
        /\ Failed(calls[1]) => Len(calls) = 1
        /\ ~Failed(calls[1]) =>
              /\ Len(calls) = 2
              /\ calls[2].method = "DELETE"
              /\ calls[2].rtype = "storageResource"
              /\ calls[2].target = calls[1].resp.srId
        /\ err = NoErr <=> (Len(calls) = 2 /\ ~Failed(calls[1]) /\ ~Failed(calls[2]))

C10_Witness ==
    /\ op = "DeleteFilesystem"
    /\ args.filesystemId = "fs_1"
    /\ Len(calls) = 2
    /\ calls[2].target = "sv_2"
    /\ err = NoErr

\* b cut at every LF, as strings.Split(b, "\n") cuts it
RECURSIVE SplitLF(_)
SplitLF(b) ==
    IF b = <<>> THEN << <<>> >>
    ELSE LET r == SplitLF(Tail(b))
         IN  IF Head(b) = "LF" THEN << <<>> >> \o r
             ELSE << <<Head(b)>> \o r[1] >> \o Tail(r)

\* whether the last line of b is ended by a newline
EndsWithLF(b) == b # <<>> /\ b[Len(b)] = "LF"

\* the pieces of b between newlines; a final newline starts no further line
Pieces(b) ==
    LET segs == SplitLF(b)
    IN  IF segs[Len(segs)] = <<>> THEN SubSeq(segs, 1, Len(segs) - 1) ELSE segs

WithoutCR(l) == IF l # <<>> /\ l[Len(l)] = "CR" THEN SubSeq(l, 1, Len(l) - 1) ELSE l

\* the lines of b, a line ending being LF or CR LF
TextLines(b) ==
    LET ps == Pieces(b)
    IN  [i \in 1..Len(ps) |->
            IF i < Len(ps) \/ EndsWithLF(b) THEN WithoutCR(ps[i]) ELSE ps[i]]

\* the lines of b as bufio.ScanLines cuts them: one trailing CR is taken off
\* every line, the last one included
ScannedLines(b) == [i \in 1..Len(Pieces(b)) |-> WithoutCR(Pieces(b)[i])]

Spaces(n) == [i \in 1..n |-> "SP"]

\* the lines, each after n spaces, with one LF between two lines
RECURSIVE Indented(_, _)
Indented(ls, n) ==
    IF ls = <<>> THEN <<>>
    ELSE IF Len(ls) = 1 THEN Spaces(n) \o ls[1]
    ELSE Spaces(n) \o ls[1] \o <<"LF">> \o Indented(Tail(ls), n)

\* the indentation the operation in the state is to write
IndentOf == IF op = "WriteIndented" THEN 4 ELSE args.n

====
